---- MODULE Spec2Model ----
(***************************************************************************)
(* Sparse-mask lifecycle and federated aggregation of fedPrune.            *)
(*                                                                         *)
(* Tensors are flattened: a weight tensor of n elements is a function      *)
(* 1..n -> Val, its mask a function 1..n -> BOOLEAN.  A float is an exact   *)
(* rational <<num, den>> with den > 0, or one of the three special values  *)
(* NaN = <<0,0>>, +Inf = <<1,0>>, -Inf = <<-1,0>> that a division by zero  *)
(* produces.  Sparsities are dyadic rationals, for which the float         *)
(* arithmetic of the source is exact.                                      *)
(***************************************************************************)
EXTENDS Integers, Sequences, FiniteSets, TLC

\* ------------------------------------------------------------------ bounds
MaxW == 2          \* weight elements of a layer
MaxB == 1          \* bias elements of a layer
MaxVal == 2        \* weight magnitudes drawn by training and initialisation
MaxGrad == 1       \* gradient magnitudes
MaxLayers == 2     \* layers of a network
MaxTotalW == 2     \* weight elements of a network, over all its layers
SDen == 4          \* sparsity targets are multiples of 1/SDen
MaxBias == 1       \* bias values drawn by training
MaxClients == 2    \* clients of the federation
MaxRounds == 2     \* server rounds (--rounds)
MaxTrain == 3      \* samples of a client's training split
MaxVotes == 2      \* --min-votes

\* ------------------------------------------------------------------ floats
Abs(x) == IF x < 0 THEN -x ELSE x

Sign(x) == IF x < 0 THEN -1 ELSE IF x > 0 THEN 1 ELSE 0

RECURSIVE GCD(_, _)
GCD(a, b) == IF b = 0 THEN a ELSE GCD(b, a % b)

\* The float with value n/d (d >= 0); d = 0 gives NaN or a signed infinity.
Norm(n, d) ==
    IF d = 0 THEN <<Sign(n), 0>>
    ELSE LET g == GCD(Abs(n), d) IN <<n \div g, d \div g>>

IntVal(v) == <<v, 1>>

Zero == <<0, 1>>

One == <<1, 1>>

NaN == <<0, 0>>

IsFinite(x) == x[2] > 0

RAdd(x, y) == Norm(x[1] * y[2] + y[1] * x[2], x[2] * y[2])

RSub(x, y) == Norm(x[1] * y[2] - y[1] * x[2], x[2] * y[2])

RMul(x, y) == Norm(x[1] * y[1], x[2] * y[2])

\* IEEE division of two finite floats: x/0 is NaN for x = 0, else +-Inf.
RDiv(x, y) ==
    IF y[1] = 0 THEN <<Sign(x[1]), 0>>
    ELSE Norm(x[1] * y[2] * Sign(y[1]), x[2] * Abs(y[1]))

RLess(x, y) == x[1] * y[2] < y[1] * x[2]

RLeq(x, y) == x[1] * y[2] <= y[1] * x[2]

RAbs(x) == <<Abs(x[1]), x[2]>>

\* floor of a finite rational
RFloor(x) == x[1] \div x[2]

Count(m) == Cardinality({i \in DOMAIN m : m[i]})

RECURSIVE SumSeq(_)
SumSeq(s) == IF s = <<>> THEN 0 ELSE Head(s) + SumSeq(Tail(s))

RECURSIVE RSumSeq(_)
RSumSeq(s) == IF s = <<>> THEN Zero ELSE RAdd(Head(s), RSumSeq(Tail(s)))

\* ------------------------------------------------------------------ models
\* A layer shape: nw weight elements (masked), nb bias elements (unmasked).
\* A network state (state_dict) is a sequence of layers, each with its
\* weight tensor, its weight_mask buffer and its bias tensor.
\* The weight values training and initialisation draw: every magnitude
\* 0..MaxVal, the even ones negative.
Vals == {IntVal(IF v % 2 = 0 THEN -v ELSE v) : v \in 0..MaxVal}

NonZeroVals == Vals \ {Zero}

BiasVals == {IntVal(v) : v \in 1..MaxBias}

Grads == {IntVal(v) : v \in 0..MaxGrad}

AllOnes(n) == [i \in 1..n |-> TRUE]

\* needs_mask: only the parameter named "weight" of a layer carries a mask.
needs_mask(pname) == pname = "weight"

Shapes == [nw : 1..MaxW, nb : 0..MaxB]

TotalW(arch) == SumSeq([l \in DOMAIN arch |-> arch[l].nw])

Archs ==
    {a \in UNION {[1..k -> Shapes] : k \in 1..MaxLayers} : TotalW(a) <= MaxTotalW}

\* Global sparsity targets: the multiples of 1/SDen in [0, 1].
SparsityVals == {Norm(k, SDen) : k \in 0..SDen}

\* PrunableNet.sparsity: 1 - n_ones / mask_size over every mask buffer.
\* With no mask element at all the division is 0/0.
sparsity(net) ==
    LET n_ones == SumSeq([l \in DOMAIN net |-> Count(net[l].mask)])
        mask_size == SumSeq([l \in DOMAIN net |-> Len(net[l].mask)])
    IN  RSub(One, RDiv(IntVal(n_ones), IntVal(mask_size)))

\* ------------------------------------------------------- SparsityScheduler
\* n_weights[i]: the element count of every parameter of the layer,
\* weights and biases alike.
n_weights(sh) == sh.nw + sh.nb

\* sparsities[i] before the renormalisation; layers carry kind, neur_in,
\* neur_out and the kernel's sum and product where 'er' / 'erk' read them
raw_sparsity(sh, s, dist) ==
    IF dist = "uniform" THEN s
    ELSE IF dist = "erk" /\ sh.kind = "conv"
    THEN RSub(One, Norm(sh.neur_in + sh.neur_out + sh.ksum,
                        sh.neur_in * sh.neur_out * sh.kprod))
    ELSE RSub(One, Norm(sh.neur_in + sh.neur_out, sh.neur_in * sh.neur_out))

\* The exception _weights_by_layer raises in its loop over the layers, or
\* "none": 'uniform' continues before the layer's type is looked at; the
\* raise for an unsupported layer adds a str and a type, which is a
\* TypeError; the first layer decides between the two for an unknown name.
scheduler_error(arch, dist) ==
    LET unsupported == {l \in DOMAIN arch : arch[l].kind \notin {"conv", "linear"}}
    IN  IF dist = "uniform" THEN "none"
        ELSE IF dist \notin {"er", "erk"}
        THEN IF 1 \in unsupported THEN "TypeError" ELSE "ValueError"
        ELSE IF unsupported # {} THEN "TypeError" ELSE "none"

\* The renormalisation factor  sparsity * sum(n) / sum(sparsities * n).
renorm_factor(arch, s, dist) ==
    LET tot == SumSeq([l \in DOMAIN arch |-> n_weights(arch[l])])
        den == RSumSeq([l \in DOMAIN arch |->
                          RMul(raw_sparsity(arch[l], s, dist), IntVal(n_weights(arch[l])))])
    IN  RDiv(RMul(s, IntVal(tot)), den)

\* A NaN factor makes every target NaN, and int(n_total - nan) raises.
scheduler_defined(arch, s, dist) == IsFinite(renorm_factor(arch, s, dist))

\* sparsities after the renormalisation
layer_sparsities(arch, s, dist) ==
    LET f == renorm_factor(arch, s, dist)
    IN  [l \in DOMAIN arch |-> RMul(raw_sparsity(arch[l], s, dist), f)]

\* _weights_by_layer: floor((1 - sparsities[i]) * n_weights[i]) per layer.
weights_by_layer(arch, s, dist) ==
    LET f == renorm_factor(arch, s, dist)
    IN  [l \in DOMAIN arch |->
            RFloor(RMul(RSub(One, RMul(raw_sparsity(arch[l], s, dist), f)),
                        IntVal(n_weights(arch[l]))))]

\* --------------------------------------------------------- PruneGrowEngine
\* torch.topk(|t|, k, largest=False): any k indices none of which is larger
\* in magnitude than an index left out; ties are broken arbitrarily.
topk_smallest(t, k) ==
    {S \in SUBSET (DOMAIN t) :
        /\ Cardinality(S) = k
        /\ \A i \in S, j \in (DOMAIN t) \ S : RLeq(RAbs(t[i]), RAbs(t[j]))}

topk_largest(t, k) ==
    {S \in SUBSET (DOMAIN t) :
        /\ Cardinality(S) = k
        /\ \A i \in S, j \in (DOMAIN t) \ S : RLeq(RAbs(t[j]), RAbs(t[i]))}

Indices(net) == UNION {DOMAIN net[l].weight : l \in DOMAIN net}

\* n_total: the element count of the layer's buffers (its weight mask).
n_total(layer) == Len(layer.mask)

n_prune(layer, target) == n_total(layer) - target

prune_skipped(layer, target) ==
    n_prune(layer, target) >= n_total(layer) \/ n_prune(layer, target) < 0

\* The prune_indices layer_prune may select, one set per layer (empty for a
\* skipped layer).
layer_prune_choices(net, arch, s, dist) ==
    LET wbl == weights_by_layer(arch, s, dist)
    IN  {sel \in [DOMAIN net -> SUBSET Indices(net)] :
            \A l \in DOMAIN net :
                IF prune_skipped(net[l], wbl[l])
                THEN sel[l] = {}
                ELSE sel[l] \in topk_smallest(net[l].weight, n_prune(net[l], wbl[l]))}

\* layer_prune zeroing the selected weights whatever the pruning type.
layer_prune_apply_always_zero(net, sel, pruning_type) ==
    [l \in DOMAIN net |->
        [weight |-> [i \in DOMAIN net[l].weight |->
                        IF i \in sel[l] THEN Zero ELSE net[l].weight[i]],
         mask   |-> [i \in DOMAIN net[l].mask |->
                        IF i \in sel[l] THEN FALSE ELSE net[l].mask[i]],
         bias   |-> net[l].bias]]

\* The writes of layer_prune at the selected indices.
layer_prune_apply(net, sel, pruning_type) ==
    [l \in DOMAIN net |->
        [weight |-> [i \in DOMAIN net[l].weight |->
                        IF i \in sel[l] /\ pruning_type = "hard"
                        THEN Zero ELSE net[l].weight[i]],
         mask   |-> [i \in DOMAIN net[l].mask |->
                        IF i \in sel[l] THEN FALSE ELSE net[l].mask[i]],
         bias   |-> net[l].bias]]

\* n_nonzero: count_nonzero over the layer's buffers.
n_grow(layer, target) == target - Count(layer.mask)

\* The grow_indices layer_grow may select from the gradient magnitudes; topk
\* raises when asked for more indices than the tensor has, so no choice
\* exists then.
layer_grow_choices(net, grad, arch, s, dist) ==
    LET wbl == weights_by_layer(arch, s, dist)
    IN  {sel \in [DOMAIN net -> SUBSET Indices(net)] :
            \A l \in DOMAIN net :
                IF n_grow(net[l], wbl[l]) < 0
                THEN sel[l] = {}
                ELSE sel[l] \in topk_largest(grad[l], n_grow(net[l], wbl[l]))}

\* topk is asked for more indices than the tensor has
grow_raises(net, arch, s, dist) ==
    \E l \in DOMAIN net : n_grow(net[l], weights_by_layer(arch, s, dist)[l]) > Len(net[l].weight)

layer_grow_apply(net, sel) ==
    [l \in DOMAIN net |->
        [weight |-> [i \in DOMAIN net[l].weight |->
                        IF i \in sel[l] THEN Zero ELSE net[l].weight[i]],
         mask   |-> [i \in DOMAIN net[l].mask |->
                        IF i \in sel[l] THEN TRUE ELSE net[l].mask[i]],
         bias   |-> net[l].bias]]

\* Every state of one layer, and every network state over an architecture,
\* with the given value sets.
LayerStates(sh, wvals, bvals) ==
    [weight : [1..sh.nw -> wvals], mask : [1..sh.nw -> BOOLEAN], bias : [1..sh.nb -> bvals]]

RECURSIVE Nets(_, _, _)
Nets(arch, wvals, bvals) ==
    IF arch = <<>> THEN {<<>>}
    ELSE {<<first>> \o rest : first \in LayerStates(Head(arch), wvals, bvals),
                               rest \in Nets(Tail(arch), wvals, bvals)}

RECURSIVE GradsOf(_)
GradsOf(arch) ==
    IF arch = <<>> THEN {<<>>}
    ELSE {<<first>> \o rest : first \in [1..Head(arch).nw -> Grads],
                               rest \in GradsOf(Tail(arch))}

\* The same masks and biases, other weight values.
RECURSIVE Retrained(_, _)
Retrained(net, wvals) ==
    IF net = <<>> THEN {<<>>}
    ELSE {<<[Head(net) EXCEPT !.weight = w]>> \o rest :
              w \in [DOMAIN Head(net).weight -> wvals],
              rest \in Retrained(Tail(net), wvals)}

\* ------------------------------------------------------ WeightResetProtocol
\* reset_weights leaving the weights outside the applied mask as they are
reset_weights_keep(local, global_state, use_global_mask, global_communication_mask, pruning_type) ==
    LET param_source == IF global_state = <<>> THEN local ELSE global_state
        apply_mask_source == IF use_global_mask THEN param_source ELSE local
        copy_mask_source == IF global_communication_mask THEN local ELSE apply_mask_source
        new_state == [l \in DOMAIN local |->
                        [weight |-> [i \in DOMAIN local[l].weight |->
                                       IF apply_mask_source[l].mask[i]
                                       THEN param_source[l].weight[i]
                                       ELSE local[l].weight[i]],
                         mask |-> copy_mask_source[l].mask,
                         bias |-> param_source[l].bias]]
    IN  [state |-> new_state, mask_changed |-> FALSE]

\* reset_weights storing the applied mask whatever global_communication_mask
reset_weights_store_applied(local, global_state, use_global_mask, global_communication_mask, pruning_type) ==
    LET param_source == IF global_state = <<>> THEN local ELSE global_state
        apply_mask_source == IF use_global_mask THEN param_source ELSE local
        new_state == [l \in DOMAIN local |->
                        [weight |-> [i \in DOMAIN local[l].weight |->
                                       IF apply_mask_source[l].mask[i]
                                       THEN param_source[l].weight[i]
                                       ELSE IF pruning_type = "hard" THEN Zero
                                            ELSE local[l].weight[i]],
                         mask |-> apply_mask_source[l].mask,
                         bias |-> param_source[l].bias]]
    IN  [state |-> new_state, mask_changed |-> FALSE]

\* reset_weights.  global_state is a network state, or <<>> for None.  The
\* tensors of new_state are those of local_state, so the comparison that sets
\* mask_changed reads the local mask after copy_ has overwritten it.
reset_weights(local, global_state, use_global_mask, global_communication_mask, pruning_type) ==
    LET param_source == IF global_state = <<>> THEN local ELSE global_state
        apply_mask_source == IF use_global_mask THEN param_source ELSE local
        copy_mask_source == IF global_communication_mask THEN local ELSE apply_mask_source
        new_layer(l) ==
            LET mask_to_apply == apply_mask_source[l].mask
                mask_to_copy == copy_mask_source[l].mask
            IN  [weight |-> [i \in DOMAIN local[l].weight |->
                                IF mask_to_apply[i] THEN param_source[l].weight[i]
                                ELSE IF pruning_type = "hard" THEN Zero
                                ELSE local[l].weight[i]],
                 mask   |-> mask_to_copy,
                 bias   |-> param_source[l].bias]
        new_state == [l \in DOMAIN local |-> new_layer(l)]
    IN  [state |-> new_state,
         mask_changed |-> \E l \in DOMAIN local :
                              new_state[l].mask # copy_mask_source[l].mask]

\* ------------------------------------------------------------ CommCostModel
\* init_param_sizes: mask_size counts the masked elements, param_size is 32
\* bits for every parameter element.
mask_size(arch) == SumSeq([l \in DOMAIN arch |-> arch[l].nw])

param_size(arch) == SumSeq([l \in DOMAIN arch |-> 32 * (arch[l].nw + arch[l].nb)])

n_ones(net) == SumSeq([l \in DOMAIN net |-> Count(net[l].mask)])

\* (1 - sparsity()) * mask_size * width + (param_size - mask_size * width)
param_cost(net, arch, width) ==
    n_ones(net) * width + (param_size(arch) - mask_size(arch) * width)

\* ------------------------------------------------------------------ server
\* The annealed target of a round: linear from sparsity to final_sparsity
\* over [0, rate_decay_end]; the division is by rate_decay_end itself.
round_sparsity_of(c, t) ==
    IF t <= c.rate_decay_end
    THEN RAdd(RDiv(RMul(c.sparsity, IntVal(c.rate_decay_end - t)), IntVal(c.rate_decay_end)),
              RDiv(RMul(c.final_sparsity, IntVal(t)), IntVal(c.rate_decay_end)))
    ELSE c.final_sparsity

readjust_of_always(c, t) == TRUE

\* readjustment_ratio of a round ('constant' method) and the readjust flag
readjustment_ratio_of(c, t) == c.readjustment_ratio

readjust_of(c, t) ==
    (t - 1) % c.rounds_between_readjustments = 0 /\ RLess(Zero, readjustment_ratio_of(c, t))

\* sparsity + (1 - sparsity) * ratio
prune_sparsity_of(s, ratio) == RAdd(s, RMul(RSub(One, s), ratio))

ZeroTensor(t) == [i \in DOMAIN t |-> Zero]

\* The three accumulators, zeroed over the names of the global state.
zero_acc(g) ==
    [params   |-> [l \in DOMAIN g |-> [weight |-> ZeroTensor(g[l].weight),
                                       bias |-> ZeroTensor(g[l].bias)]],
     for_mask |-> [l \in DOMAIN g |-> [weight |-> ZeroTensor(g[l].weight),
                                       bias |-> ZeroTensor(g[l].bias)]],
     masks    |-> [l \in DOMAIN g |-> ZeroTensor(g[l].weight)]]

RECURSIVE bf_scale(_, _, _, _)
\* the power of two p / q that brings n / d into [128, 256)
bf_scale(n, d, p, q) ==
    IF n * p < 128 * d * q THEN bf_scale(n, d, 2 * p, q)
    ELSE IF n * p >= 256 * d * q THEN bf_scale(n, d, p, 2 * q)
    ELSE <<p, q>>

\* x.to(torch.bfloat16).to(torch.float): round to nearest, ties to even, on
\* 8 significant bits (the exponent range is not reached by the values here)
to_bfloat16(x) ==
    IF ~IsFinite(x) \/ x[1] = 0 THEN x
    ELSE LET n == Abs(x[1])
             sc == bf_scale(n, x[2], 1, 1)
             num == n * sc[1]
             den == x[2] * sc[2]
             fl == num \div den
             rem == num % den
             m == IF 2 * rem > den \/ (2 * rem = den /\ fl % 2 = 1) THEN fl + 1 ELSE fl
         IN  Norm(Sign(x[1]) * m * sc[2], sc[1])

\* One client's reported state added to the accumulators, weighted by its
\* train size n.  dst_~mask_retrain adds unmasked weights under soft pruning.
accumulate(a, st, g, n, c) ==
    LET unmasked == c.driver = "mask_retrain" /\ c.pruning_type = "soft"
        remember == c.remember_old /\ ~unmasked
        \* cl_weight_params, received as half floats under --fp16
        received(x) == IF c.fp16 THEN to_bfloat16(x) ELSE x
        contrib(l, i) ==
            IF unmasked \/ st[l].mask[i]
            THEN RMul(IntVal(n), received(st[l].weight[i])) ELSE Zero
        \* sv_mask[cl_mask] = 0
        sv_mask(l, i) == g[l].mask[i] /\ ~st[l].mask[i]
        remembered(l, i) ==
            IF remember /\ sv_mask(l, i)
            THEN RMul(IntVal(n), g[l].weight[i]) ELSE Zero
        votes(l, i) ==
            IntVal((IF st[l].mask[i] THEN n ELSE 0)
                   + (IF remember /\ sv_mask(l, i) THEN n ELSE 0))
    IN  [params   |-> [l \in DOMAIN a.params |->
                        [weight |-> [i \in DOMAIN a.params[l].weight |->
                                        RAdd(a.params[l].weight[i], contrib(l, i))],
                         bias   |-> [i \in DOMAIN a.params[l].bias |->
                                        RAdd(a.params[l].bias[i],
                                             RMul(IntVal(n), received(st[l].bias[i])))]]],
         for_mask |-> [l \in DOMAIN a.for_mask |->
                        [weight |-> [i \in DOMAIN a.for_mask[l].weight |->
                                        RAdd(RAdd(a.for_mask[l].weight[i], contrib(l, i)),
                                             remembered(l, i))],
                         bias   |-> a.for_mask[l].bias]],
         masks    |-> [l \in DOMAIN a.masks |->
                        [i \in DOMAIN a.masks[l] |-> RAdd(a.masks[l][i], votes(l, i))]]]

\* F.threshold_(x, min_votes, 0): x where x > min_votes, else 0
threshold(x, min_votes) == IF RLess(IntVal(min_votes), x) THEN x ELSE Zero

\* nan_to_num leaving NaN and the infinities in place
nan_to_num_identity(x) == x

nan_to_num(x) == IF IsFinite(x) THEN x ELSE Zero

\* The reduction with the bias sums left undivided.
reduce_bias_sum(a, total, min_votes) ==
    LET thr(l, i) == threshold(a.masks[l][i], min_votes)
        p(l, i) == nan_to_num(RDiv(a.params[l].weight[i], thr(l, i)))
    IN  [params   |-> [l \in DOMAIN a.params |->
                        [weight |-> [i \in DOMAIN a.params[l].weight |-> p(l, i)],
                         bias   |-> a.params[l].bias]],
         for_mask |-> [l \in DOMAIN a.for_mask |->
                        [weight |-> [i \in DOMAIN a.for_mask[l].weight |-> nan_to_num(p(l, i))],
                         bias   |-> a.for_mask[l].bias]],
         masks    |-> [l \in DOMAIN a.masks |->
                        [i \in DOMAIN a.masks[l] |->
                            nan_to_num(RDiv(thr(l, i), thr(l, i)))]]]

\* The reduction: biases divide by the total sampled train size; masked
\* weights divide by the thresholded vote sums.  aggregated_params_for_mask
\* is rebuilt from aggregated_params.
reduce(a, total, min_votes) ==
    LET thr(l, i) == threshold(a.masks[l][i], min_votes)
        p(l, i) == nan_to_num(RDiv(a.params[l].weight[i], thr(l, i)))
    IN  [params   |-> [l \in DOMAIN a.params |->
                        [weight |-> [i \in DOMAIN a.params[l].weight |-> p(l, i)],
                         bias   |-> [i \in DOMAIN a.params[l].bias |->
                                        RDiv(a.params[l].bias[i], IntVal(total))]]],
         for_mask |-> [l \in DOMAIN a.for_mask |->
                        [weight |-> [i \in DOMAIN a.for_mask[l].weight |-> nan_to_num(p(l, i))],
                         bias   |-> a.for_mask[l].bias]],
         masks    |-> [l \in DOMAIN a.masks |->
                        [i \in DOMAIN a.masks[l] |->
                            nan_to_num(RDiv(thr(l, i), thr(l, i)))]]]

\* load_state_dict of an accumulator with its masks as entries: a float mask
\* copied into a bool buffer is TRUE where it is nonzero.
load_state(params, masks) ==
    [l \in DOMAIN params |->
        [weight |-> params[l].weight,
         mask   |-> [i \in DOMAIN masks[l] |-> masks[l][i] # Zero],
         bias   |-> params[l].bias]]

\* The final load with no weight zeroed.
enforce_mask_none(params, g, c) ==
    [l \in DOMAIN params |->
        [weight |-> params[l].weight, mask |-> g[l].mask, bias |-> params[l].bias]]

\* "discard old weights and apply new mask": aggregated_params zeroed outside
\* the global model's mask (dst_~mask_retrain: only under hard pruning).
enforce_mask(params, g, c) ==
    [l \in DOMAIN params |->
        [weight |-> [i \in DOMAIN params[l].weight |->
                        IF ~g[l].mask[i] /\ (c.driver # "mask_retrain" \/ c.pruning_type = "hard")
                        THEN Zero ELSE params[l].weight[i]],
         mask   |-> g[l].mask,
         bias   |-> params[l].bias]]

\* ------------------------------------------------ the other model modules
\* dst_ensemble imports `models` and dst_~mask_retrain imports `dpf.models`;
\* neither file is part of the sources, so their PrunableNet is taken from
\* the design document (sections 4.1 to 4.3).
\* 4.3 step 5: mask_changed is true iff the new mask differs from the
\* previous local mask.
ext_reset_weights(local, global_state, use_global_mask, global_communication_mask, pruning_type) ==
    LET r == reset_weights(local, global_state, use_global_mask,
                           global_communication_mask, pruning_type)
    IN  [state |-> r.state,
         mask_changed |-> \E l \in DOMAIN local : r.state[l].mask # local[l].mask]

\* 4.2 prune: the n_prune weights of smallest magnitude, skipped when
\* n_prune is negative or >= total.
ext_layer_prune_choices(n, a, s, dist) == layer_prune_choices(n, a, s, dist)

ext_layer_prune_apply(n, sel, pruning_type) == layer_prune_apply(n, sel, pruning_type)

\* 4.2 grow: the n_grow currently-inactive weights of largest gradient.
ext_layer_grow_choices(n, grad, a, s, dist) ==
    LET wbl == weights_by_layer(a, s, dist)
        inactive(l) == {i \in DOMAIN n[l].mask : ~n[l].mask[i]}
    IN  {sel \in [DOMAIN n -> SUBSET Indices(n)] :
            \A l \in DOMAIN n :
                IF n_grow(n[l], wbl[l]) < 0
                THEN sel[l] = {}
                ELSE /\ sel[l] \subseteq inactive(l)
                     /\ Cardinality(sel[l]) = n_grow(n[l], wbl[l])
                     /\ \A i \in sel[l], j \in inactive(l) \ sel[l] :
                            RLeq(RAbs(grad[l][j]), RAbs(grad[l][i]))}

ext_layer_grow_apply(n, sel) == layer_grow_apply(n, sel)

\* The PrunableNet of a driver.
net_reset_weights(driver, local, g, ugm, gcm, pt) ==
    IF driver = "adapter" THEN reset_weights(local, g, ugm, gcm, pt)
    ELSE ext_reset_weights(local, g, ugm, gcm, pt)

net_prune_choices(driver, n, a, s, dist) ==
    IF driver = "adapter" THEN layer_prune_choices(n, a, s, dist)
    ELSE ext_layer_prune_choices(n, a, s, dist)

net_prune_apply(driver, n, sel, pt) ==
    IF driver = "adapter" THEN layer_prune_apply(n, sel, pt)
    ELSE ext_layer_prune_apply(n, sel, pt)

net_grow_choices(driver, n, grad, a, s, dist) ==
    IF driver = "adapter" THEN layer_grow_choices(n, grad, a, s, dist)
    ELSE ext_layer_grow_choices(n, grad, a, s, dist)

net_grow_apply(driver, n, sel) ==
    IF driver = "adapter" THEN layer_grow_apply(n, sel)
    ELSE ext_layer_grow_apply(n, sel)

\* ------------------------------------------------------------------ clients
\* The optimizer steps of one epoch: every weight and bias may take any of
\* the training values.
RECURSIVE Stepped(_)
Stepped(n) ==
    IF n = <<>> THEN {<<>>}
    ELSE {<<[Head(n) EXCEPT !.weight = w, !.bias = b]>> \o rest :
              w \in [DOMAIN Head(n).weight -> Vals],
              b \in [DOMAIN Head(n).bias -> BiasVals],
              rest \in Stepped(Tail(n))}

\* layer_prune at the overshoot sparsity, then layer_grow back to the target,
\* with freshly computed gradients; the mask upload is charged n_ones bits.
readjusted(driver, n, a, prune_s, grow_s, dist, pt) ==
    IF ~(scheduler_defined(a, prune_s, dist) /\ scheduler_defined(a, grow_s, dist))
    THEN {}
    ELSE LET pruned == {net_prune_apply(driver, n, selp, pt) :
                           selp \in net_prune_choices(driver, n, a, prune_s, dist)}
             grown(m) == UNION {{net_grow_apply(driver, m, selg) :
                                    selg \in net_grow_choices(driver, m, g, a, grow_s, dist)} :
                                g \in GradsOf(a)}
         IN  IF \E m \in pruned : grow_raises(m, a, grow_s, dist)
             THEN {}
             ELSE UNION {grown(m) : m \in pruned}

\* One local epoch of dst_adapter's Client.train on st = [net, epoch, ul]:
\* the minibatch steps, each followed by reset_weights(), then the readjustment
\* at the client's default sparsity (args.sparsity) when the epoch is due.
adapter_epoch(st, a, c, readjust) ==
    LET trained == {reset_weights(n, <<>>, FALSE, FALSE, "hard").state : n \in Stepped(st.net)}
        due == (st.epoch - c.pruning_begin) % c.pruning_interval = 0 /\ readjust
    IN  UNION {IF due
               THEN {[net |-> m, epoch |-> st.epoch + 1, ul |-> st.ul + n_ones(m)] :
                        m \in readjusted("adapter", n, a,
                                 prune_sparsity_of(c.sparsity, c.readjustment_ratio),
                                 c.sparsity, c.dist, c.pruning_type)}
               ELSE {[net |-> n, epoch |-> st.epoch + 1, ul |-> st.ul]} :
               n \in trained}

RECURSIVE adapter_epochs(_, _, _, _, _)
adapter_epochs(st, k, a, c, readjust) ==
    IF k = 0 THEN {st}
    ELSE UNION {adapter_epochs(st2, k - 1, a, c, readjust) :
                   st2 \in adapter_epoch(st, a, c, readjust)}

\* One local epoch of dst_~mask_retrain: reset_weights() follows a step only
\* in rounds with (server_round - 1) % rounds_between_readjustments >= pruning_begin.
retrain_epoch(st, a, c, t) ==
    {[net |-> IF (t - 1) % c.rounds_between_readjustments >= c.pruning_begin
              THEN ext_reset_weights(n, <<>>, FALSE, FALSE, "hard").state ELSE n,
      epoch |-> st.epoch, ul |-> st.ul] : n \in Stepped(st.net)}

RECURSIVE retrain_epochs(_, _, _, _, _)
retrain_epochs(st, k, a, c, t) ==
    IF k = 0 THEN {st}
    ELSE UNION {retrain_epochs(st2, k - 1, a, c, t) : st2 \in retrain_epoch(st, a, c, t)}

\* dst_~mask_retrain prunes and grows once, after the epochs, at the round's
\* sparsity and the round's readjustment ratio.
retrain_readjust(st, a, c, t) ==
    IF (t - 1) % c.rounds_between_readjustments = c.pruning_begin - 1
    THEN {[net |-> m, epoch |-> st.epoch, ul |-> st.ul + n_ones(m)] :
             m \in readjusted("mask_retrain", st.net, a,
                      prune_sparsity_of(round_sparsity_of(c, t), readjustment_ratio_of(c, t)),
                      round_sparsity_of(c, t), c.dist, "hard")}
    ELSE {st}

download_charge_always(mask_changed, has_initial, st, a) ==
    (IF mask_changed THEN mask_size(a) ELSE 0) + param_cost(st, a, 32)

\* dl_cost of Client.train: the mask when reset_weights said it changed, and
\* the parameters unless initial_global_params was still unset.
download_charge(mask_changed, has_initial, st, a) ==
    (IF mask_changed THEN mask_size(a) ELSE 0)
    + (IF has_initial THEN param_cost(st, a, 32) ELSE 0)

\* Client.train up to its return value: ReceivingGlobal, the local epochs,
\* the upload cost.  rec is the client record, g the broadcast state.  The
\* result is the set of [net, epoch, dl, ul] the call may end with.
client_train(rec, g, a, c, t) ==
    LET r == net_reset_weights(c.driver, rec.net, g, TRUE, FALSE,
                               IF c.driver = "mask_retrain" THEN c.pruning_type ELSE "hard")
        dl == download_charge(r.mask_changed, rec.has_initial, r.state, a)
        st0 == [net |-> r.state, epoch |-> rec.epoch, ul |-> 0]
        ends == IF c.driver = "adapter"
                THEN adapter_epochs(st0, c.epochs, a, c, readjust_of(c, t))
                ELSE IF c.driver = "mask_retrain"
                THEN UNION {retrain_readjust(st, a, c, t) :
                               st \in retrain_epochs(st0, c.epochs, a, c, t)}
                ELSE {st0}
    IN  {[net |-> st.net, epoch |-> st.epoch, dl |-> dl,
          ul |-> st.ul + param_cost(st.net, a, IF c.fp16 THEN 16 ELSE 32)] : st \in ends}

\* dst_ensemble calls train without server_round, and the first epoch
\* evaluates (server_round - 1) with server_round = None.
train_raises(c) == c.driver = "ensemble" /\ c.epochs >= 1

\* -------------------------------------------------------------- gradients
\* param.grad of the client's network: "none" (never computed, or deleted by
\* clear_gradients), "cleared" (optimizer.zero_grad) or "populated" (backward).
grad_after(g, e) ==
    IF e = "backward" THEN "populated"
    ELSE IF e = "zero_grad" THEN "cleared"
    ELSE IF e = "clear_gradients" THEN "none"
    ELSE g

RECURSIVE grad_after_all(_, _)
grad_after_all(g, es) ==
    IF es = <<>> THEN g ELSE grad_after_all(grad_after(g, Head(es)), Tail(es))

\* what each layer_grow of the calls es finds in param.grad
RECURSIVE grow_reads(_, _)
grow_reads(g, es) ==
    IF es = <<>> THEN {}
    ELSE (IF Head(es) = "layer_grow" THEN {g} ELSE {})
             \cup grow_reads(grad_after(g, Head(es)), Tail(es))

\* the minibatch loop of an epoch, on the network that is pruned and grown
batch_events == <<"zero_grad", "backward", "step", "reset_weights">>

readjust_events_stale(driver) == <<"zero_grad", "layer_prune", "layer_grow">>

\* the readjustment of dst_adapter and dst_~mask_retrain: the gradient is
\* recomputed on the last minibatch, then the network is pruned and grown
readjust_events(driver) == <<"zero_grad", "backward", "layer_prune", "layer_grow">>

\* dst_adapter: k epochs from curr_epoch = epoch, each readjusting when due
RECURSIVE adapter_events(_, _, _, _)
adapter_events(epoch, k, c, readjust) ==
    IF k = 0 THEN <<>>
    ELSE batch_events
         \o (IF (epoch - c.pruning_begin) % c.pruning_interval = 0 /\ readjust
             THEN readjust_events("adapter") ELSE <<>>)
         \o adapter_events(epoch + 1, k - 1, c, readjust)

\* dst_~mask_retrain: the epochs, then one readjustment in the rounds due
RECURSIVE retrain_events(_, _, _)
retrain_events(k, c, t) ==
    IF k = 0
    THEN IF (t - 1) % c.rounds_between_readjustments = c.pruning_begin - 1
         THEN readjust_events("mask_retrain") ELSE <<>>
    ELSE batch_events \o retrain_events(k - 1, c, t)

\* The calls of one Client.train that touch the gradient, in program order.
\* dst_ensemble prunes and grows at the top of its first epoch, behind the
\* expression (server_round - 1) that raises.
train_events(rec, c, t) ==
    IF c.driver = "adapter"
    THEN adapter_events(rec.epoch, c.epochs, c, readjust_of(c, t))
    ELSE IF c.driver = "mask_retrain" THEN retrain_events(c.epochs, c, t)
    ELSE IF c.epochs >= 1 THEN <<"raise">> ELSE <<>>

\* ------------------------------------------------------------------ state
VARIABLES
    arch,           \* the layer shapes of the networks
    net,            \* a network under prune / grow
    pre,            \* that network before the last operation
    last,           \* the last operation on it, with the indices it selected
    cfg,            \* the command line (args)
    gmodel,         \* global_model's state_dict
    cl,             \* clients: net, initial_global_params set, curr_epoch
    pc,             \* where the server loop stands
    round,          \* server_round
    sampled,        \* client_indices of the round
    idx,            \* position in client_indices
    acc,            \* aggregated_params, aggregated_params_for_mask, aggregated_masks
    reports,        \* the states the sampled clients returned, in order
    agg,            \* what the last aggregation computed on its way
    download_cost,
    upload_cost

pvars == <<net, pre, last>>

svars == <<cfg, gmodel, cl, pc, round, sampled, idx, acc, reports, agg,
           download_cost, upload_cost>>

vars == <<arch, net, pre, last, cfg, gmodel, cl, pc, round, sampled, idx, acc,
          reports, agg, download_cost, upload_cost>>

PruningTypes == {"hard", "soft"}

NoOp == [op |-> "none", sel |-> <<>>, s |-> Zero, pruning_type |-> "hard"]

\* ---------------------------------------------- prune / grow on any network
PInit ==
    /\ arch \in Archs
    /\ net \in {n \in Nets(arch, Vals, {One}) : \A l \in DOMAIN n : n[l].mask = AllOnes(arch[l].nw)}
    /\ pre = net
    /\ last = NoOp
    /\ cfg = <<>> /\ gmodel = <<>> /\ cl = <<>> /\ pc = "prune_grow" /\ round = 0
    /\ sampled = <<>> /\ idx = 0 /\ acc = <<>> /\ reports = <<>> /\ agg = <<>>
    /\ download_cost = <<>> /\ upload_cost = <<>>

\* net.layer_prune(sparsity=s, sparsity_distribution='uniform', pruning_type)
PLayerPrune ==
    \E s \in SparsityVals, pt \in PruningTypes :
        /\ scheduler_defined(arch, s, "uniform")
        /\ \E sel \in layer_prune_choices(net, arch, s, "uniform") :
              /\ net' = layer_prune_apply(net, sel, pt)
              /\ last' = [op |-> "prune", sel |-> sel, s |-> s, pruning_type |-> pt]
        /\ pre' = net
        /\ UNCHANGED <<arch, svars>>

\* net.layer_grow(sparsity=s, sparsity_distribution='uniform') with any
\* populated gradients
PLayerGrow ==
    \E s \in SparsityVals, g \in GradsOf(arch) :
        /\ scheduler_defined(arch, s, "uniform")
        /\ \E sel \in layer_grow_choices(net, g, arch, s, "uniform") :
              /\ net' = layer_grow_apply(net, sel)
              /\ last' = [op |-> "grow", sel |-> sel, s |-> s, pruning_type |-> "hard"]
        /\ pre' = net
        /\ UNCHANGED <<arch, svars>>

\* optimizer steps between two calls: any weight may take any value
PTrain ==
    /\ net' \in Retrained(net, Vals)
    /\ pre' = net
    /\ last' = [NoOp EXCEPT !.op = "train"]
    /\ UNCHANGED <<arch, svars>>

PNext == PLayerPrune \/ PLayerGrow \/ PTrain

SpecPrune == PInit /\ [][PNext]_vars

\* ------------------------------------------------- reset_weights on its own
RNoOp == [op |-> "none", with_global |-> FALSE, use_global_mask |-> FALSE,
          global_communication_mask |-> FALSE, pruning_type |-> "hard",
          mask_changed |-> FALSE]

\* any local state (weights outside the mask may be non-zero after a soft
\* prune) and any broadcast state of the same architecture
RInit ==
    /\ arch \in Archs
    /\ net \in Nets(arch, Vals, {Zero, One})
    /\ gmodel \in Nets(arch, {Zero, One}, BiasVals)
    /\ pre = net
    /\ last = RNoOp
    /\ cfg = <<>> /\ cl = <<>> /\ pc = "reset" /\ round = 0
    /\ sampled = <<>> /\ idx = 0 /\ acc = <<>> /\ reports = <<>> /\ agg = <<>>
    /\ download_cost = <<>> /\ upload_cost = <<>>

\* net.reset_weights(global_state, use_global_mask, global_communication_mask,
\* pruning_type), global_state being the broadcast state or None
RResetWeights ==
    \E with_global \in BOOLEAN, ugm \in BOOLEAN, gcm \in BOOLEAN, pt \in PruningTypes :
        LET r == reset_weights(net, IF with_global THEN gmodel ELSE <<>>, ugm, gcm, pt)
        IN  /\ net' = r.state
            /\ pre' = net
            /\ last' = [op |-> "reset", with_global |-> with_global,
                        use_global_mask |-> ugm, global_communication_mask |-> gcm,
                        pruning_type |-> pt, mask_changed |-> r.mask_changed]
            /\ UNCHANGED <<arch, cfg, gmodel, cl, pc, round, sampled, idx, acc, reports,
                           agg, download_cost, upload_cost>>

RNext == RResetWeights

SpecReset == RInit /\ [][RNext]_vars

\* --------------------------------------- merge_models of the ensemble client
\* Client.merge_models: the masks and the parameters of net and co_net are
\* summed as floats; the mask sum goes through F.threshold(x, 2, 0), which
\* keeps x only where x > 2, and is then compared with min_votes = 2; the
\* weight sums are divided by the resulting mask where it is set and zeroed
\* elsewhere; the other parameters are halved.  The result is loaded into net.
merge_models(n, co) ==
    LET min_votes == 2
        bit(b) == IF b THEN One ELSE Zero
        new_layer(l) ==
            LET mask_sum == [i \in DOMAIN n[l].mask |->
                               RAdd(bit(n[l].mask[i]), bit(co[l].mask[i]))]
                aggregated_mask == [i \in DOMAIN mask_sum |->
                    bit(RLeq(IntVal(min_votes), threshold(mask_sum[i], min_votes)))]
                valid_mask == [i \in DOMAIN mask_sum |-> RLess(Zero, aggregated_mask[i])]
                param_sum == [i \in DOMAIN n[l].weight |->
                                RAdd(n[l].weight[i], co[l].weight[i])]
            IN  [weight |-> [i \in DOMAIN param_sum |->
                               nan_to_num(IF valid_mask[i]
                                          THEN RDiv(param_sum[i], aggregated_mask[i])
                                          ELSE Zero)],
                 mask |-> [i \in DOMAIN mask_sum |-> aggregated_mask[i] # Zero],
                 bias |-> [i \in DOMAIN n[l].bias |->
                             RDiv(RAdd(n[l].bias[i], co[l].bias[i]), IntVal(2))]]
    IN  [l \in DOMAIN n |-> new_layer(l)]

MNoOp == [op |-> "none"]

\* a client holding any two networks of one architecture
MInit ==
    /\ arch \in Archs
    /\ cl \in [net : Nets(arch, Vals, {Zero, One}), co_net : Nets(arch, Vals, {Zero, One})]
    /\ pre = cl.net
    /\ last = MNoOp
    /\ net = <<>> /\ cfg = <<>> /\ gmodel = <<>> /\ pc = "merge" /\ round = 0
    /\ sampled = <<>> /\ idx = 0 /\ acc = <<>> /\ reports = <<>> /\ agg = <<>>
    /\ download_cost = <<>> /\ upload_cost = <<>>

\* self.merge_models(), once per call of train (model_merged)
MMergeModels ==
    /\ pc = "merge"
    /\ cl' = [cl EXCEPT !.net = merge_models(cl.net, cl.co_net)]
    /\ pre' = cl.net
    /\ last' = [op |-> "merge"]
    /\ pc' = "merged"
    /\ UNCHANGED <<arch, net, cfg, gmodel, round, sampled, idx, acc, reports, agg,
                   download_cost, upload_cost>>

MNext == MMergeModels

SpecMerge == MInit /\ [][MNext]_vars

\* ----------------------------- the scheduler over layer kinds and policies
\* A child module: nn.Linear, a convolution with a one-dimensional kernel of
\* size k, or any other module with parameters.
Layer(kind, neur_in, neur_out, k, nb) ==
    [kind |-> kind, nw |-> neur_in * neur_out * k, nb |-> nb,
     neur_in |-> neur_in, neur_out |-> neur_out, ksum |-> k, kprod |-> k]

SchedShapes ==
    {sh \in {Layer(kind, i, o, k, nb) :
                kind \in {"linear", "conv", "other"}, i \in 1..MaxW, o \in 1..MaxW,
                k \in 1..MaxW, nb \in 0..MaxB} :
        sh.nw <= MaxW /\ (sh.kind # "conv" => sh.kprod = 1)}

SchedArchs ==
    {a \in UNION {[1..k -> SchedShapes] : k \in 1..MaxLayers} : TotalW(a) <= MaxTotalW}

\* the sparsity_distribution argument of layer_prune / layer_grow, with a
\* name the code does not know
Dists == {"uniform", "er", "erk", "random"}

SNoOp == [op |-> "none", sel |-> <<>>, error |-> "none"]

\* what ends a layer_prune / layer_grow call before its first layer is
\* touched: the scheduler's exception, or int() of a NaN or infinite target
call_error(a, s, dist) ==
    IF scheduler_error(a, dist) # "none" THEN scheduler_error(a, dist)
    ELSE IF ~scheduler_defined(a, s, dist) THEN "NonFinite"
    ELSE "none"

SInit ==
    /\ arch \in SchedArchs
    /\ cfg \in [dist : Dists, sparsity : SparsityVals]
    /\ net \in {n \in Nets(arch, Vals, {One}) : \A l \in DOMAIN n : n[l].mask = AllOnes(arch[l].nw)}
    /\ pre = net
    /\ last = SNoOp
    /\ gmodel = <<>> /\ cl = <<>> /\ pc = "scheduler" /\ round = 0
    /\ sampled = <<>> /\ idx = 0 /\ acc = <<>> /\ reports = <<>> /\ agg = <<>>
    /\ download_cost = <<>> /\ upload_cost = <<>>

\* net.layer_prune(sparsity=args.sparsity, sparsity_distribution=args.dist)
SLayerPrune ==
    /\ LET err == call_error(arch, cfg.sparsity, cfg.dist)
       IN  IF err # "none"
           THEN /\ net' = net
                /\ last' = [op |-> "raised", sel |-> <<>>, error |-> err]
           ELSE \E pt \in PruningTypes :
                \E sel \in layer_prune_choices(net, arch, cfg.sparsity, cfg.dist) :
                    /\ net' = layer_prune_apply(net, sel, pt)
                    /\ last' = [op |-> "prune", sel |-> sel, error |-> "none"]
    /\ pre' = net
    /\ UNCHANGED <<arch, cfg, gmodel, cl, pc, round, sampled, idx, acc, reports, agg,
                   download_cost, upload_cost>>

\* net.layer_grow(sparsity=args.sparsity, sparsity_distribution=args.dist):
\* torch.topk raises at the first layer asked for more indices than it has,
\* after the layers before it were grown.
SLayerGrow ==
    /\ LET err == call_error(arch, cfg.sparsity, cfg.dist)
       IN  IF err # "none"
           THEN /\ net' = net
                /\ last' = [op |-> "raised", sel |-> <<>>, error |-> err]
           ELSE LET wbl == weights_by_layer(arch, cfg.sparsity, cfg.dist)
                    over == {l \in DOMAIN net : n_grow(net[l], wbl[l]) > Len(net[l].weight)}
                    reached(l) == \A k \in over : l < k
                IN  \E g \in GradsOf(arch) :
                    \E sel \in [DOMAIN net -> SUBSET Indices(net)] :
                        /\ \A l \in DOMAIN net :
                              IF reached(l) /\ n_grow(net[l], wbl[l]) >= 0
                              THEN sel[l] \in topk_largest(g[l], n_grow(net[l], wbl[l]))
                              ELSE sel[l] = {}
                        /\ net' = layer_grow_apply(net, sel)
                        /\ last' = [op |-> IF over = {} THEN "grow" ELSE "raised",
                                    sel |-> sel,
                                    error |-> IF over = {} THEN "none" ELSE "RuntimeError"]
    /\ pre' = net
    /\ UNCHANGED <<arch, cfg, gmodel, cl, pc, round, sampled, idx, acc, reports, agg,
                   download_cost, upload_cost>>

SNext == SLayerPrune \/ SLayerGrow

SpecSched == SInit /\ [][SNext]_vars

\* ------------------------------------------------------------ server rounds
Drivers == {"adapter", "ensemble", "mask_retrain"}

Clients == 1..MaxClients

\* The command line: the defaults of the parser where the model does not
\* vary an argument.  rate_decay_end and final_sparsity are given.
Args(driver, pruning_type, remember_old, min_votes, K, s, fs, sizes, rounds, epochs, eval) ==
    [driver |-> driver, pruning_type |-> pruning_type, remember_old |-> remember_old,
     min_votes |-> min_votes, clients |-> K, sparsity |-> s, final_sparsity |-> fs,
     train_size |-> sizes, rounds |-> rounds, epochs |-> epochs, eval |-> eval,
     dist |-> "uniform", pruning_begin |-> 1, pruning_interval |-> 1,
     rounds_between_readjustments |-> 1, readjustment_ratio |-> Norm(1, 2),
     rate_decay_end |-> 1, eval_every |-> 1, fp16 |-> FALSE]

\* A freshly constructed network: every mask bit set (initialize_mask).
FreshNets(a) ==
    {n \in Nets(a, NonZeroVals, BiasVals) : \A l \in DOMAIN n : n[l].mask = AllOnes(a[l].nw)}

\* global_model after initialize_mask and the initial layer_prune
InitialGlobals(a, c) ==
    IF ~scheduler_defined(a, c.sparsity, c.dist) THEN {}
    ELSE UNION {{net_prune_apply(c.driver, g0, sel, c.pruning_type) :
                    sel \in net_prune_choices(c.driver, g0, a, c.sparsity, c.dist)} :
                g0 \in FreshNets(a)}

FreshClient(a) ==
    [net |-> [l \in DOMAIN a |-> [weight |-> [i \in 1..a[l].nw |-> One],
                                   mask |-> AllOnes(a[l].nw),
                                   bias |-> [i \in 1..a[l].nb |-> One]]],
     has_initial |-> FALSE, epoch |-> 0, grad |-> "none"]

NoAgg == [votes |-> <<>>, reduced |-> <<>>, loaded |-> <<>>, repruned |-> <<>>,
          need |-> FALSE, target |-> Zero, round |-> -1]

ServerInit(archs, configs) ==
    /\ arch \in archs
    /\ cfg \in configs
    /\ gmodel \in InitialGlobals(arch, cfg)
    /\ cl = [c \in Clients |-> FreshClient(arch)]
    /\ pc = "sample"
    /\ round = 0
    /\ sampled = <<>>
    /\ idx = 0
    /\ acc = zero_acc(gmodel)
    /\ reports = <<>>
    /\ agg = NoAgg
    /\ download_cost = [c \in Clients |-> 0]
    /\ upload_cost = [c \in Clients |-> 0]
    /\ net = <<>> /\ pre = <<>> /\ last = NoOp

\* rng.choice(clients, size=args.clients): with replacement; the accumulators
\* are zeroed.
StartRound ==
    /\ pc = "sample"
    /\ round < cfg.rounds
    /\ sampled' \in [1..cfg.clients -> Clients]
    /\ acc' = zero_acc(gmodel)
    /\ reports' = <<>>
    /\ idx' = 1
    /\ pc' = "train"
    /\ agg' = NoAgg
    /\ UNCHANGED <<arch, pvars, cfg, gmodel, cl, round, download_cost, upload_cost>>

\* round_sparsity divides by rate_decay_end up to that round
round_sparsity_raises(c, t) == t <= c.rate_decay_end /\ c.rate_decay_end = 0

reset_weights_source_aliased(local, global_state, pruning_type) ==
    [l \in DOMAIN global_state |->
        [global_state[l] EXCEPT
            !.weight = [i \in DOMAIN global_state[l].weight |->
                           IF pruning_type = "hard" /\ ~global_state[l].mask[i]
                           THEN Zero ELSE global_state[l].weight[i]]]]

\* param_source after reset_weights(global_state=...): its tensors are the
\* global model's own, and every assignment of reset_weights indexes
\* new_state, whose tensors are those of local_state; param_source is only
\* read.
reset_weights_source(local, global_state, pruning_type) == global_state

next_client_early(i, s) == "reduce"

\* for client_id in client_indices: the aggregation follows the last one
next_client(i, s) == IF i = Len(s) THEN "reduce" ELSE "train"

\* One iteration of the loop over client_indices: the client trains, its
\* costs are stored, its state is added to the accumulators.  An exception
\* (round_sparsity, the training call, layer_grow's topk) ends the run.
ClientTrain ==
    /\ pc = "train"
    /\ LET c == sampled[idx]
           outs == IF round_sparsity_raises(cfg, round) \/ train_raises(cfg) THEN {}
                   ELSE client_train(cl[c], gmodel, arch, cfg, round)
       IN  IF outs = {}
           THEN /\ pc' = "raised"
                /\ UNCHANGED <<cl, download_cost, upload_cost, acc, reports, idx, gmodel>>
           ELSE \E o \in outs :
                  /\ cl' = [cl EXCEPT ![c] =
                              [net |-> o.net, has_initial |-> TRUE, epoch |-> o.epoch,
                               grad |-> grad_after_all(cl[c].grad,
                                            train_events(cl[c], cfg, round)
                                                \o <<"clear_gradients">>)]]
                  /\ download_cost' = [download_cost EXCEPT ![c] = o.dl]
                  /\ upload_cost' = [upload_cost EXCEPT ![c] = o.ul]
                  /\ acc' = accumulate(acc, o.net, gmodel, cfg.train_size[c], cfg)
                  /\ reports' = Append(reports, o.net)
                  /\ idx' = idx + 1
                  /\ pc' = next_client(idx, sampled)
                  /\ gmodel' = reset_weights_source(cl[c].net, gmodel,
                                    IF cfg.driver = "mask_retrain"
                                    THEN cfg.pruning_type ELSE "hard")
    /\ UNCHANGED <<arch, pvars, cfg, round, sampled, agg>>

\* sum(clients[i].train_size() for i in client_indices)
total_sampled(c, s) == SumSeq([k \in DOMAIN s |-> c.train_size[s[k]]])

\* The server re-prune: layer_prune at round_sparsity when the loaded model
\* is denser than the round's target.
repruned_models(loaded, a, c, t) ==
    IF RLess(sparsity(loaded), round_sparsity_of(c, t))
    THEN IF scheduler_defined(a, round_sparsity_of(c, t), c.dist)
         THEN {net_prune_apply(c.driver, loaded, sel, c.pruning_type) :
                  sel \in net_prune_choices(c.driver, loaded, a, round_sparsity_of(c, t), c.dist)}
         ELSE {}
    ELSE {loaded}

\* dst_~mask_retrain stores the best model with copy.deepcopy, and copy is
\* not imported; the first evaluation always improves on best_accuracy = -1.
eval_raises(c, t) == c.driver = "mask_retrain" /\ c.eval /\ t % c.eval_every = 0

\* the rounds in which evaluate_global runs and print_csv_line writes the
\* clients' metric rows; dst_~mask_retrain has no server_round > 0
emits_metrics(c, t) ==
    t % c.eval_every = 0 /\ c.eval /\ (c.driver = "mask_retrain" \/ t > 0)

\* the rounds at whose end compute_times, download_cost and upload_cost are
\* zeroed
clears_costs(c, t) == t % c.eval_every = 0 /\ c.eval

\* The rest of the round: reduction, load, re-prune, mask enforcement, load,
\* evaluation and the bookkeeping of costs.  layer_prune raising inside the
\* re-prune (a NaN target) ends the run before anything is published.
Aggregate ==
    /\ pc = "reduce"
    /\ LET red == reduce(acc, total_sampled(cfg, sampled), cfg.min_votes)
           loaded == load_state(red.for_mask, red.masks)
           rps == repruned_models(loaded, arch, cfg, round)
       IN  IF rps = {}
           THEN /\ pc' = "raised"
                /\ UNCHANGED <<gmodel, agg, cl, round, download_cost, upload_cost>>
           ELSE /\ \E rp \in rps :
                      /\ gmodel' = enforce_mask(red.params, rp, cfg)
                      /\ agg' = [votes |-> acc.masks, reduced |-> red, loaded |-> loaded,
                                 repruned |-> rp,
                                 need |-> RLess(sparsity(loaded), round_sparsity_of(cfg, round)),
                                 target |-> round_sparsity_of(cfg, round), round |-> round]
                /\ IF eval_raises(cfg, round)
                   THEN /\ pc' = "raised"
                        /\ UNCHANGED <<cl, round, download_cost, upload_cost>>
                   ELSE /\ cl' = IF round = 0
                                  THEN [c \in Clients |-> [cl[c] EXCEPT !.has_initial = TRUE]]
                                  ELSE cl
                        /\ IF clears_costs(cfg, round)
                           THEN /\ download_cost' = [c \in Clients |-> 0]
                                /\ upload_cost' = [c \in Clients |-> 0]
                           ELSE UNCHANGED <<download_cost, upload_cost>>
                        /\ round' = round + 1
                        /\ pc' = IF round + 1 < cfg.rounds THEN "sample" ELSE "done"
    /\ UNCHANGED <<arch, pvars, cfg, sampled, idx, acc, reports>>

Next == StartRound \/ ClientTrain \/ Aggregate

\* The federations explored: one layer of two weights and a bias, sparsity
\* annealed from 1/4 to 1/2.  One sampled client over all rounds, or two
\* sampled clients over one round.
ServerArchs == {<<[nw |-> 2, nb |-> 1]>>}

SizesById == [c \in Clients |-> c]

SizesAll(n) == [c \in Clients |-> n]

SingleConfigs ==
    {Args(d, pt, rem, mv, 1, s, Norm(1, 2), SizesById, MaxRounds, 1, d = "adapter") :
        d \in {"adapter", "mask_retrain"}, pt \in PruningTypes, rem \in BOOLEAN,
        mv \in 0..1, s \in {Norm(1, 4), Norm(1, 2)}}

PairConfigs ==
    {Args(d, pt, rem, 1, 2, Norm(1, 4), Norm(1, 2), SizesAll(1), 1, 1, TRUE) :
        d \in {"adapter", "mask_retrain"}, pt \in PruningTypes, rem \in BOOLEAN}

EnsembleConfigs ==
    {Args("ensemble", pt, rem, 0, 2, Norm(1, 4), Norm(1, 2), SizesById, MaxRounds, e, TRUE) :
        pt \in PruningTypes, rem \in BOOLEAN, e \in 0..1}

VoteConfigs ==
    {Args("adapter", "hard", FALSE, mv, 2, Norm(1, 4), Norm(1, 2), SizesAll(n), 1, 1, TRUE) :
        mv \in 1..MaxVotes, n \in {MaxTrain}}

\* --fp16: the trained parameters are uploaded as half floats
HalfConfigs ==
    {[Args("adapter", pt, FALSE, 0, 1, Norm(1, 2), Norm(1, 2), SizesById, 1, 1, TRUE)
         EXCEPT !.fp16 = TRUE] : pt \in PruningTypes}

\* readjustments every second round and every second epoch, beginning at
\* epoch 1 or 2
ScheduleConfigs ==
    {[Args(d, "hard", FALSE, 0, 1, Norm(1, 4), Norm(1, 2), SizesById, MaxRounds, 1, FALSE)
         EXCEPT !.rounds_between_readjustments = 2, !.pruning_interval = 2,
                !.pruning_begin = pb] :
        d \in {"adapter", "mask_retrain"}, pb \in 1..2}

\* args.rate_decay_end when --rate-decay-end is not given
default_rate_decay_end(rounds) == rounds \div 2

\* the annealing end left to its default
DecayConfigs ==
    {[Args("adapter", "hard", FALSE, 0, 1, Norm(1, 4), Norm(1, 2), SizesById, r, 1, FALSE)
         EXCEPT !.rate_decay_end = default_rate_decay_end(r)] : r \in 1..MaxRounds}

Configs ==
    SingleConfigs \cup PairConfigs \cup EnsembleConfigs \cup VoteConfigs
        \cup HalfConfigs \cup ScheduleConfigs \cup DecayConfigs

Init == ServerInit(ServerArchs, Configs)

Spec == Init /\ [][Next]_vars

\* ------------------------------------------------ properties of aggregation
Aggregated == agg.round >= 0

\* the thresholded vote sum of a position in the last aggregation
ThresholdedVotes(l, i) == threshold(agg.votes[l][i], cfg.min_votes)

MatchesMask ==
    \A l \in DOMAIN gmodel : \A i \in DOMAIN gmodel[l].weight :
        ~gmodel[l].mask[i] => gmodel[l].weight[i] = Zero

\* C1: after the aggregation of every round, in every driver and for either
\* pruning type and remember_old setting, a published weight whose published
\* mask bit is 0 is exactly 0.
C1_PublishedMatchesMask == Aggregated => MatchesMask

\* C1 as the drivers have it: all but dst_~mask_retrain under soft pruning.
C1_MatchesMaskUnlessSoftRetrain ==
    (Aggregated /\ ~(cfg.driver = "mask_retrain" /\ cfg.pruning_type = "soft")) => MatchesMask

\* the mask enforcement zeroed an averaged weight the re-prune had removed
C1_Witness ==
    /\ Aggregated
    /\ ~(cfg.driver = "mask_retrain" /\ cfg.pruning_type = "soft")
    /\ \E l \in DOMAIN gmodel : \E i \in DOMAIN gmodel[l].weight :
          /\ agg.reduced.params[l].weight[i] # Zero
          /\ agg.loaded[l].mask[i]
          /\ ~gmodel[l].mask[i]

\* the reports of the round in which position i of layer l is active
Voters(l, i) == {k \in DOMAIN reports : reports[k][l].mask[i]}

\* C2: with remember_old off, a position active in the reports of fewer than
\* min_votes sampled clients has mask bit 0 in the published global mask.
C2_VoteThreshold ==
    (Aggregated /\ ~cfg.remember_old) =>
        \A l \in DOMAIN gmodel : \A i \in DOMAIN gmodel[l].weight :
            Cardinality(Voters(l, i)) < cfg.min_votes => ~gmodel[l].mask[i]

SingleClient == Aggregated /\ cfg.clients = 1 /\ cfg.min_votes = 0

Masked(st, l, i) == IF st[l].mask[i] THEN st[l].weight[i] ELSE Zero

FiniteNet(st) ==
    \A l \in DOMAIN st :
        /\ \A i \in DOMAIN st[l].weight : IsFinite(st[l].weight[i])
        /\ \A i \in DOMAIN st[l].bias : IsFinite(st[l].bias[i])

\* C5: a position whose thresholded vote sum is 0 has aggregated value 0 and
\* published mask bit 0, and no published tensor holds NaN or an infinity.
C5_DivisionByZeroRecovered ==
    Aggregated =>
        /\ \A l \in DOMAIN gmodel : \A i \in DOMAIN gmodel[l].weight :
              ThresholdedVotes(l, i) = Zero =>
                  /\ agg.reduced.params[l].weight[i] = Zero
                  /\ agg.reduced.masks[l][i] = Zero
                  /\ ~gmodel[l].mask[i]
        /\ FiniteNet(gmodel)
        /\ FiniteNet(agg.loaded)

\* a position with votes below the threshold and a nonzero weight sum (x/0
\* is an infinity), next to one nobody voted for (0/0 is NaN)
C5_Witness ==
    /\ Aggregated
    /\ \E l \in DOMAIN gmodel : \E i, j \in DOMAIN gmodel[l].weight :
          /\ ThresholdedVotes(l, i) = Zero
          /\ acc.params[l].weight[i] # Zero
          /\ agg.votes[l][j] = Zero

\* C6: after the conditional re-prune the global model's sparsity is at least
\* the round's target.
C6_RepruneReachesTarget ==
    Aggregated => RLeq(agg.target, sparsity(agg.repruned))

\* ----------------------------------------------- properties of Client.train
\* a step of the client loop in which Client.train returned
Trained == pc = "train" /\ pc' # "raised"

MaskDiffers(a, b) == \E l \in DOMAIN a : a[l].mask # b[l].mask

\* the parameter download of a client whose mask is the broadcast one
ParamDownload(g, a) == n_ones(g) * 32 + (param_size(a) - mask_size(a) * 32)

\* C11: when the broadcast mask differs from the client's mask before the
\* call, the round's download cost includes mask_size bits, and it does not
\* when the two masks are identical.
C11_MaskChangeCharged ==
    [][Trained =>
          LET c == sampled[idx]
              params == IF cl[c].has_initial THEN ParamDownload(gmodel, arch) ELSE 0
          IN  download_cost'[c] =
                  params + (IF MaskDiffers(gmodel, cl[c].net) THEN mask_size(arch) ELSE 0)]_vars

\* the bits Client.train charged for parameters, given the download cost dl
ParamCharges(dl, a) == {dl, dl - mask_size(a)}

\* the client has been through a Client.train call of dst_adapter before
\* (curr_epoch grows by one per local epoch)
TrainedBefore(c) == cl[c].epoch > 0

\* C12 as stated: the first Client.train call of a client, in whichever round,
\* is charged no parameter download, and each later call is charged
\* (1 - sparsity) * mask_size * 32 + (param_size - mask_size * 32).
C12_FirstParticipationFree ==
    [][(Trained /\ cfg.driver = "adapter" /\ cfg.epochs >= 1) =>
          LET c == sampled[idx]
          IN  IF TrainedBefore(c)
              THEN ParamDownload(gmodel, arch) \in ParamCharges(download_cost'[c], arch)
              ELSE 0 \in ParamCharges(download_cost'[c], arch)]_vars

\* initial_global_params is set on a client by its first call in round 0 and
\* on every client at the end of round 0
InitialParamsSet ==
    \A c \in Clients :
        cl[c].has_initial <=>
            (round >= 1 \/ \E k \in 1..(idx - 1) : k <= Len(sampled) /\ sampled[k] = c)

\* C12 amended: a call is free of the parameter download exactly when
\* initial_global_params is still unset, which is the client's first call in
\* round 0; a first participation in a later round is charged like any other.
C12_FreeUntilInitialParams ==
    /\ []InitialParamsSet
    /\ [][Trained =>
            LET c == sampled[idx]
            IN  (IF cl[c].has_initial THEN ParamDownload(gmodel, arch) ELSE 0)
                    \in ParamCharges(download_cost'[c], arch)]_vars

\* a client sampled for the first time in round 1 has paid for the parameters
C12_Witness ==
    /\ cfg.driver = "adapter" /\ round = 1 /\ pc = "reduce" /\ idx = 2
    /\ cl[sampled[1]].epoch = 1
    /\ download_cost[sampled[1]] >= ParamDownload(gmodel, arch)
    /\ ParamDownload(gmodel, arch) > 0

\* client c is the one whose Client.train call returned last in this round
JustTrained(c) == pc \in {"train", "reduce"} /\ idx > 1 /\ c = sampled[idx - 1]

\* the bits per uploaded masked weight
Width == IF cfg.fp16 THEN 16 ELSE 32

\* the mask uploads a call of at most one local epoch can have charged
MaskUploads(n) == {0, n_ones(n)}

\* C13: the upload charged for the trained parameters is
\* (1 - sparsity) * mask_size * width + (param_size - mask_size * 32) with
\* width 16 under fp16 and 32 otherwise: the term of the unmasked parameters
\* does not depend on fp16.
C13_UploadCost ==
    \A c \in Clients :
        (JustTrained(c) /\ cfg.epochs <= 1) =>
            \E m \in MaskUploads(cl[c].net) :
                upload_cost[c] =
                    m + n_ones(cl[c].net) * Width
                      + (param_size(arch) - mask_size(arch) * 32)

\* the step that ends a round
RoundEnds == pc = "reduce" /\ pc' \in {"sample", "done"}

\* C14: the cost accumulators are cleared at the end of a round only when
\* the round emitted metric rows; a round that reports no metrics (round 0 of
\* dst_adapter included) leaves them unchanged.
C14_ClearedOnlyWhenReported ==
    [][(RoundEnds /\ ~emits_metrics(cfg, round)) =>
          UNCHANGED <<download_cost, upload_cost>>]_vars

\* the bits the last call of client c charged for uploading its mask: one
\* mask upload follows each layer_prune / layer_grow pair
MaskUploadOf(c) == upload_cost[c] - param_cost(cl[c].net, arch, Width)

\* the epoch / round / ratio condition, for the epoch counter e
Eligible(e) ==
    /\ (e - cfg.pruning_begin) % cfg.pruning_interval = 0
    /\ (round - 1) % cfg.rounds_between_readjustments = 0
    /\ RLess(Zero, cfg.readjustment_ratio)

ReadjustsIn(c) ==
    IF cfg.driver = "adapter" THEN Eligible(cl[c].epoch - 1)
    ELSE IF cfg.driver = "mask_retrain"
    THEN (round - 1) % cfg.rounds_between_readjustments = cfg.pruning_begin - 1
    ELSE FALSE

RECURSIVE Accumulated(_)
\* the accumulators after the first k reports of the round
Accumulated(k) ==
    IF k = 0 THEN zero_acc(gmodel)
    ELSE accumulate(Accumulated(k - 1), reports[k], gmodel,
                    cfg.train_size[sampled[k]], cfg)

\* every sampled client of the round has trained and has been accumulated
AllReported ==
    /\ Len(sampled) = cfg.clients
    /\ idx = Len(sampled) + 1
    /\ Len(reports) = Len(sampled)
    /\ acc = Accumulated(Len(reports))

\* C16: the reduction and every change of the global model happen only after
\* every client sampled in the round has trained and has been added to the
\* accumulators.
C16_AggregationBarrier ==
    [][((agg' # agg /\ agg'.round >= 0) \/ gmodel' # gmodel) =>
          (pc = "reduce" /\ AllReported)]_vars

\* a global model was reduced from the reports of two sampled clients
C16_Witness ==
    /\ Aggregated /\ cfg.clients = 2 /\ Len(reports) = 2
    /\ reports[1] # reports[2]

Called == last.op # "none"

\* two linear layers of 100 and 300 weights, without biases
HundredThreeHundred == <<Layer("linear", 10, 10, 1, 0), Layer("linear", 30, 10, 1, 0)>>

\* C18: under 'uniform' every layer's sparsity after the renormalisation is
\* the global sparsity s and its target is floor((1 - s) * n_i) with n_i the
\* layer's weight count; s = 1/2 and weight counts 100 and 300 give 50 and 150.
C18_UniformTargets ==
    /\ weights_by_layer(HundredThreeHundred, Norm(1, 2), "uniform") = <<50, 150>>
    /\ (Called /\ cfg.dist = "uniform") =>
          \A l \in DOMAIN arch :
              /\ layer_sparsities(arch, cfg.sparsity, "uniform")[l] = cfg.sparsity
              /\ weights_by_layer(arch, cfg.sparsity, "uniform")[l]
                     = RFloor(RMul(RSub(One, cfg.sparsity), IntVal(arch[l].nw)))

InUnit(x) == IsFinite(x) /\ RLeq(Zero, x) /\ RLeq(x, One)

\* the mean of the layers' sparsities weighted by their parameter counts
WeightedMean(a, sp) ==
    RDiv(RSumSeq([l \in DOMAIN a |-> RMul(sp[l], IntVal(n_weights(a[l])))]),
         IntVal(SumSeq([l \in DOMAIN a |-> n_weights(a[l])])))

\* C19: for every policy and every s in [0, 1] the layers' sparsities after
\* the renormalisation lie in [0, 1], their parameter-count weighted mean is
\* s, and the network's mask sparsity lies in [0, 1].
C19_SparsitiesInRange ==
    (Called /\ scheduler_error(arch, cfg.dist) = "none") =>
        LET sp == layer_sparsities(arch, cfg.sparsity, cfg.dist)
        IN  /\ \A l \in DOMAIN arch : InUnit(sp[l])
            /\ WeightedMean(arch, sp) = cfg.sparsity
            /\ InUnit(sparsity(net))

\* C20: with a layer that is neither convolutional nor linear, or with an
\* unknown distribution name, the call raises (whatever the exception) and
\* leaves the weights and masks as they were, under every policy.
C20_UnsupportedAborts ==
    (Called /\ (cfg.dist \notin {"uniform", "er", "erk"}
                 \/ \E l \in DOMAIN arch : arch[l].kind \notin {"conv", "linear"})) =>
        /\ last.op = "raised"
        /\ net = pre

\* the step in which the server reduces the accumulators
Reduces == pc = "reduce" /\ agg'.round >= 0

\* no report of the round has position i of layer l active
NoneActive(l, i) == \A k \in DOMAIN reports : ~reports[k][l].mask[i]

\* C21: with remember_old, a position no sampled client reports active but
\* active in the prior global mask is loaded before the re-prune with mask
\* bit 1 and the server's prior value (min_votes 0, so that the votes pass).
C21_RememberOldKeepsValue ==
    [][(Reduces /\ cfg.remember_old /\ cfg.min_votes = 0) =>
          \A l \in DOMAIN gmodel : \A i \in DOMAIN gmodel[l].mask :
              (gmodel[l].mask[i] /\ NoneActive(l, i)) =>
                  /\ agg'.loaded[l].mask[i]
                  /\ agg'.loaded[l].weight[i] = gmodel[l].weight[i]]_vars

\* a round is under way (or ended in an exception)
InRound == pc \in {"train", "reduce", "raised"}

Between(x, a, b) == IsFinite(x) /\ ((RLeq(a, x) /\ RLeq(x, b)) \/ (RLeq(b, x) /\ RLeq(x, a)))

\* C22: in every round of every configuration the round's target sparsity
\* is defined, is the linear interpolation up to rate_decay_end and the
\* final sparsity after it, and lies between the two.
C22_RoundSparsityDefined ==
    InRound =>
        /\ ~round_sparsity_raises(cfg, round)
        /\ round_sparsity_of(cfg, round) =
              (IF round <= cfg.rate_decay_end
               THEN RDiv(RAdd(RMul(cfg.sparsity, IntVal(cfg.rate_decay_end - round)),
                              RMul(cfg.final_sparsity, IntVal(round))),
                         IntVal(cfg.rate_decay_end))
               ELSE cfg.final_sparsity)
        /\ Between(round_sparsity_of(cfg, round), cfg.sparsity, cfg.final_sparsity)

\* C23: in every driver and round the local mask is re-applied after each
\* optimizer step, so every reported client state holds exactly 0 at each
\* weight whose mask bit is 0.
C23_ReportsStayOnSupport ==
    \A k \in DOMAIN reports : \A l \in DOMAIN reports[k] :
        \A i \in DOMAIN reports[k][l].mask :
            ~reports[k][l].mask[i] => reports[k][l].weight[i] = Zero

\* C24: after a client's readjustment (layer_prune at the overshoot, then
\* layer_grow) every layer has as many active mask bits as the scheduler's
\* target for the round's target sparsity, for any gradients and weights.
C24_ReadjustReachesRoundTarget ==
    \A c \in Clients :
        (JustTrained(c) /\ cfg.epochs = 1 /\ ReadjustsIn(c)) =>
            \A l \in DOMAIN arch :
                Count(cl[c].net[l].mask) =
                    weights_by_layer(arch, round_sparsity_of(cfg, round), cfg.dist)[l]

\* ------------------------------------------------ properties of reset_weights
\* C25: after reset_weights(global_state=G, use_global_mask=True) with hard
\* pruning the local mask is G's mask, each masked weight is G's value where
\* G's mask is 1 and 0 elsewhere, and each bias is G's, whatever the client
\* held before.
C25_ReceivingGlobalHard ==
    (/\ last.op = "reset" /\ last.with_global /\ last.use_global_mask
     /\ ~last.global_communication_mask /\ last.pruning_type = "hard") =>
        \A l \in DOMAIN net :
            /\ net[l].mask = gmodel[l].mask
            /\ \A i \in DOMAIN net[l].weight :
                  net[l].weight[i] = IF gmodel[l].mask[i] THEN gmodel[l].weight[i] ELSE Zero
            /\ net[l].bias = gmodel[l].bias

\* the client held another mask, another bias and a non-zero weight where
\* the broadcast mask is 0
C25_Witness ==
    /\ last.op = "reset" /\ last.with_global /\ last.use_global_mask
    /\ ~last.global_communication_mask /\ last.pruning_type = "hard"
    /\ \E l \in DOMAIN net :
          /\ pre[l].mask # gmodel[l].mask
          /\ pre[l].bias # gmodel[l].bias
          /\ \E i \in DOMAIN net[l].weight : ~gmodel[l].mask[i] /\ pre[l].weight[i] # Zero

\* the arguments under which the local mask is kept
KeepsLocalMask == ~last.use_global_mask \/ last.global_communication_mask

\* C26: reset_weights with use_global_mask=False or with
\* global_communication_mask=True leaves the local mask unchanged and
\* returns mask_changed = False; with global_state=None a second call with
\* the same arguments changes nothing.
C26_LocalMaskKept ==
    /\ []((last.op = "reset" /\ KeepsLocalMask) =>
            /\ \A l \in DOMAIN net : net[l].mask = pre[l].mask
            /\ ~last.mask_changed)
    /\ [][(last.op = "reset" /\ ~last.with_global /\ last' = last) => net' = net]_vars

\* the parameters of a broadcast state with another mask were adopted under
\* the local mask
C26_Witness ==
    /\ last.op = "reset" /\ last.with_global /\ last.global_communication_mask
    /\ last.use_global_mask
    /\ net # pre
    /\ \E l \in DOMAIN net : net[l].mask # gmodel[l].mask

Mean(x, y) == RDiv(RAdd(x, y), IntVal(2))

\* C28: merge_models leaves in net the element-wise AND of the masks of net
\* and co_net, the mean of the two weights at each kept position, 0 at every
\* other masked weight, and the mean of the two values of each bias.
C28_MergeKeepsCommonSupport ==
    last.op = "merge" =>
        \A l \in DOMAIN pre :
            /\ \A i \in DOMAIN pre[l].mask :
                  /\ cl.net[l].mask[i] = (pre[l].mask[i] /\ cl.co_net[l].mask[i])
                  /\ cl.net[l].weight[i] =
                        IF pre[l].mask[i] /\ cl.co_net[l].mask[i]
                        THEN Mean(pre[l].weight[i], cl.co_net[l].weight[i]) ELSE Zero
            /\ \A i \in DOMAIN pre[l].bias :
                  cl.net[l].bias[i] = Mean(pre[l].bias[i], cl.co_net[l].bias[i])

\* ------------------------------------------------ properties of the costs
\* C29: between two reports the entries of download_cost and upload_cost
\* accumulate: a Client.train call adds its costs to what the client's
\* entries held since the last reset.
C29_CostsAccumulate ==
    [][Trained =>
          LET c == sampled[idx]
          IN  \E o \in client_train(cl[c], gmodel, arch, cfg, round) :
                  /\ o.net = cl'[c].net
                  /\ download_cost'[c] = download_cost[c] + o.dl
                  /\ upload_cost'[c] = upload_cost[c] + o.ul]_vars

\* ---------------------------------------------- properties of the sampling
\* the clients of the sampled list, each once
SampledSet == {sampled[k] : k \in DOMAIN sampled}

\* C30: the sampled list of a round holds no client twice, so no client
\* trains twice in the round and the total sampled train size counts each
\* sampled client once.
C30_SampledOnce ==
    InRound =>
        /\ \A j, k \in DOMAIN sampled : sampled[j] = sampled[k] => j = k
        /\ total_sampled(cfg, sampled) =
               SumSeq([c \in Clients |-> IF c \in SampledSet THEN cfg.train_size[c] ELSE 0])

\* ------------------------------------------------- the two-client example
\* Two sampled clients of equal train size, min_votes = 1, remember_old off:
\* client 1 reports mask [1,0,1] and weights [2,_,4], client 2 mask [1,1,0]
\* and weights [3,5,_]; the dashes are whatever the client left there.
ExampleArch == <<[nw |-> 3, nb |-> 0]>>

ExampleReport(k, x) ==
    IF k = 1
    THEN <<[weight |-> <<IntVal(2), x, IntVal(4)>>, mask |-> <<TRUE, FALSE, TRUE>>, bias |-> <<>>]>>
    ELSE <<[weight |-> <<IntVal(3), IntVal(5), x>>, mask |-> <<TRUE, TRUE, FALSE>>, bias |-> <<>>]>>

ExampleInit ==
    /\ arch = ExampleArch
    /\ cfg \in {Args("adapter", pt, FALSE, 1, 2, Norm(1, 4), Norm(1, 2), SizesAll(n), 1, 1, TRUE) :
                   pt \in PruningTypes, n \in 1..MaxTrain}
    /\ gmodel \in InitialGlobals(arch, cfg)
    /\ cl = [c \in Clients |-> FreshClient(arch)]
    /\ pc = "train"
    /\ round = 0
    /\ sampled = <<1, 2>>
    /\ idx = 1
    /\ acc = zero_acc(gmodel)
    /\ reports = <<>>
    /\ agg = NoAgg
    /\ download_cost = [c \in Clients |-> 0]
    /\ upload_cost = [c \in Clients |-> 0]
    /\ net = <<>> /\ pre = <<>> /\ last = NoOp

\* the accumulation of the example's report for the next sampled client
ExampleAccumulate ==
    /\ pc = "train"
    /\ \E x \in Vals :
          /\ acc' = accumulate(acc, ExampleReport(idx, x), gmodel, cfg.train_size[sampled[idx]], cfg)
          /\ reports' = Append(reports, ExampleReport(idx, x))
    /\ idx' = idx + 1
    /\ pc' = IF idx = Len(sampled) THEN "reduce" ELSE "train"
    /\ UNCHANGED <<arch, pvars, cfg, gmodel, cl, round, sampled, agg, download_cost, upload_cost>>

\* the reduction of the accumulated sums
ExampleReduce ==
    /\ pc = "reduce"
    /\ acc' = reduce(acc, total_sampled(cfg, sampled), cfg.min_votes)
    /\ pc' = "reduced"
    /\ UNCHANGED <<arch, pvars, cfg, gmodel, cl, round, sampled, idx, reports, agg,
                   download_cost, upload_cost>>

ExampleNext == ExampleAccumulate \/ ExampleReduce

SpecExample == ExampleInit /\ [][ExampleNext]_vars

\* C3: in the example the reduction yields the aggregated mask [1,1,1] and
\* the values 2.5, 5 and 4, for any equal positive train size.
C3_TwoClientExample ==
    pc = "reduced" =>
        /\ acc.masks[1] = <<One, One, One>>
        /\ acc.params[1].weight = <<Norm(5, 2), IntVal(5), IntVal(4)>>

\* ------------------------------------------------- properties of prune / grow
LastTargets == weights_by_layer(arch, last.s, "uniform")

\* C7: after layer_prune every selected position has mask bit 0 and, under
\* hard pruning, weight 0, under soft pruning its weight from before the call;
\* every position not selected keeps its weight.
C7_PruneEffect ==
    last.op = "prune" =>
        \A l \in DOMAIN net : \A i \in DOMAIN net[l].weight :
            IF i \in last.sel[l]
            THEN /\ ~net[l].mask[i]
                 /\ net[l].weight[i] = IF last.pruning_type = "hard" THEN Zero
                                        ELSE pre[l].weight[i]
            ELSE net[l].weight[i] = pre[l].weight[i]

\* a soft prune that selected an active, nonzero weight and left another
\* position of the layer alone
C7_Witness ==
    /\ last.op = "prune"
    /\ last.pruning_type = "soft"
    /\ \E l \in DOMAIN net : \E i \in last.sel[l], j \in DOMAIN net[l].weight \ last.sel[l] :
          pre[l].mask[i] /\ pre[l].weight[i] # Zero

\* C8: layer_prune on a network whose every layer already has exactly the
\* target's active count changes no weight and no mask bit.
C8_PruneIdempotent ==
    (/\ last.op = "prune"
     /\ \A l \in DOMAIN pre : Count(pre[l].mask) = LastTargets[l])
        => net = pre

\* C9: layer_grow selects only positions that were inactive before the call
\* and leaves every weight that was active before the call unchanged.
C9_GrowOnlyInactive ==
    last.op = "grow" =>
        \A l \in DOMAIN net : \A i \in DOMAIN net[l].weight :
            pre[l].mask[i] => (i \notin last.sel[l] /\ net[l].weight[i] = pre[l].weight[i])

\* C10: a layer whose n_prune is negative or >= its mask-slot count is left
\* unchanged by layer_prune, and a layer with an active mask bit before a
\* layer_prune call has one after it.
C10_PruneKeepsOne ==
    last.op = "prune" =>
        \A l \in DOMAIN net :
            /\ prune_skipped(pre[l], LastTargets[l]) => net[l] = pre[l]
            /\ Count(pre[l].mask) >= 1 => Count(net[l].mask) >= 1

====
